---- MODULE Spec2Model ----
(***************************************************************************)
(* Model of the Cognito read-through cache (type Cache: Get, add, Len,     *)
(* Clear) of package aws, with the sync.RWMutex that guards it and the    *)
(* upstream lookup awsCognito.Get it calls on a miss.                     *)
(* Goroutines call Get, Len and Clear concurrently; every lock operation, *)
(* the read of the map, the provider call and the store are steps.        *)
(* A second part models awsS3.ListChan with its sender goroutine and the  *)
(* receiver of its channel, and awsS3.DeleteFolder with the storage calls *)
(* it makes; each has its own specification over the same variables.      *)
(***************************************************************************)
EXTENDS Integers, FiniteSets, Sequences, TLC

\* ------------------------------------------------------------------ bounds
NProcs == 2
MaxOps == 3
\* objects in an answer of ListObjects to ListChan, above the channel's capacity
MaxKeys == 11
\* objects in an answer of ListObjects to DeleteFolder
MaxFolderKeys == 2
\* characters in the folderName given to DeleteFolder
MaxName == 3

\* The goroutines that call the cache, each one call after another.
Procs == 1..NProcs

\* ------------------------------------------------------------ identifiers
Pools == {"pool-1", "pool-2"}
Subs == {"real-sub", "missing-sub"}
Keys == Pools \X Subs

\* ------------------------------------------------------------------ errors
\* A Go error value: id is its identity (what == compares), msg is what
\* Error() returns.
NilErr == [id |-> "nil", msg |-> ""]
ErrCognitoUserNotFound == [id |-> "ErrCognitoUserNotFound", msg |-> "user not found"]
\* Errors of the SDK call: a service failure, and a failure of another kind
\* whose message text is the text of ErrCognitoUserNotFound.
ErrThrottled == [id |-> "ErrThrottled", msg |-> "too many requests"]
ErrSameText == [id |-> "ErrSameText", msg |-> "user not found"]
SdkErrors == {ErrThrottled, ErrSameText}

Error(e) == e.msg

\* ------------------------------------------------------------------- users
\* *UserType: nil, or the record of a user of the pool
NilUser == "nil"
Users == {"R1"}

\* cacheData{*UserType, err}; also the (user, err) pair Get returns
cacheData(user, err) == [user |-> user, err |-> err]
NoResult == cacheData(NilUser, NilErr)

\* ------------------------------------------------ upstream ListUsers call
\* What the SDK's ListUsers can answer: an error, an empty list, one user.
ListUsersOutputs ==
    {[kind |-> "error", user |-> NilUser, err |-> e] : e \in SdkErrors}
    \cup {[kind |-> "empty", user |-> NilUser, err |-> NilErr]}
    \cup {[kind |-> "users", user |-> r, err |-> NilErr] : r \in Users}

\* awsCognito.Get: the (user, err) it returns for an answer of ListUsers
CognitoGet(out) ==
    IF out.err # NilErr THEN cacheData(NilUser, out.err)
    ELSE IF out.kind = "empty" THEN cacheData(NilUser, ErrCognitoUserNotFound)
    ELSE cacheData(out.user, NilErr)

\* ------------------------------------------------------------------- state
VARIABLES
    cache,       \* c.cache: pool -> (sub -> cacheData), a missing pool is the empty map
    rlocked,     \* c.mu: the goroutines holding the read lock
    writer,      \* c.mu: the goroutine that called Lock and awaits or holds the write lock, 0 if none
    pc,          \* position of each goroutine
    arg,         \* the call each goroutine is in: op, userPoolId, sub
    ret,         \* Get's named results (user, err) while Get runs
    ncalls,      \* provider calls made so far by the goroutine's Get
    snap,        \* per goroutine, returned[key] when its Get was called
    last,        \* the call that finished last, with its arguments and results
    calls,       \* provider call counter
    started,     \* calls made so far
    given,       \* per key, the answers the provider has given
    returned,    \* per key, the results of the Gets finished since the last Clear of the pool
    invalidated  \* keys removed by a Clear and not stored since

\* awsS3.ListChan, its sender goroutine and the consumer of the channel
VARIABLES
    lcPc,        \* position of ListChan: "idle", "list", "ret", "done"
    lcPrefix,    \* the prefix argument
    lcOut,       \* what ListObjects answered
    lcErr,       \* the err ListChan returned
    sndPc,       \* the sender goroutine: "none", "loop", "done"
    sndI,        \* index in listObjects.Contents of the sender's loop
    chBuf,       \* ch: the keys sent and not yet received
    chClosed,    \* ch: closed
    received,    \* the keys the consumer has received, in order
    consPc       \* the consumer: "recv", or "end" once it has seen the close

lcVars == <<lcPc, lcPrefix, lcOut, lcErr, sndPc, sndI, chBuf, chClosed,
            received, consPc>>

\* awsS3.DeleteFolder
VARIABLES
    dfPc,        \* position of DeleteFolder: "idle", "list", "keys", "done"
    dfName,      \* the folderName DeleteFolder was called with
    dfFolder,    \* folderName, as DeleteFolder changes it
    dfKeys,      \* keys, as List returned them
    dfI,         \* i of the delete loop
    dfCalls,     \* the storage calls made so far, in order
    dfErr        \* the err DeleteFolder returned

dfVars == <<dfPc, dfName, dfFolder, dfKeys, dfI, dfCalls, dfErr>>

s3Vars == <<lcVars, dfVars>>

cacheVars == <<cache, rlocked, writer, pc, arg, ret, ncalls, snap, last, calls,
               started, given, returned, invalidated>>

vars == <<cache, rlocked, writer, pc, arg, ret, ncalls, snap, last, calls,
          started, given, returned, invalidated, lcVars, dfVars>>

EmptyMap == [u \in {} |-> NoResult]
NoArg == [op |-> "none", pool |-> "pool-1", sub |-> "real-sub"]
NoLast == [op |-> "none", pool |-> "pool-1", sub |-> "real-sub", ret |-> NoResult,
           ok |-> FALSE, ncalls |-> 0, snap |-> {}, len |-> 0]

KeyOf(p) == <<arg[p].pool, arg[p].sub>>

\* ---------------------------------------------------------------------- S3
\* A string is the sequence of its characters.
Slash == "/"
\* an error of the S3 client (the nil error is NilErr)
ErrS3 == [id |-> "ErrS3", msg |-> "access denied"]

\* ch = make(chan string, 10)
ChanCap == 10

\* the prefixes ListChan is called with
Prefixes == {<<"d", Slash>>, <<"e", Slash>>}

\* the first n keys under a prefix, in listing order
ObjectKeys(prefix, n) == [j \in 1..n |-> prefix \o <<ToString(j)>>]

\* seq with x put in after its first j elements
InsertAt(seq, j, x) == SubSeq(seq, 1, j) \o <<x>> \o SubSeq(seq, j + 1, Len(seq))

\* listObjects.Contents for a prefix: up to max keys under it, with or without
\* an object whose key is the prefix itself
Listings(prefix, max) ==
    {ObjectKeys(prefix, n) : n \in 0..max}
    \cup UNION {{InsertAt(ObjectKeys(prefix, n), j, prefix) : j \in 0..n} :
                   n \in 0..max}

\* what a.Client.ListObjects answers: an error, or the contents
ListOutputs(prefix, max) ==
    {[err |-> ErrS3, contents |-> <<>>]}
    \cup {[err |-> NilErr, contents |-> c] : c \in Listings(prefix, max)}

NoOutput == [err |-> NilErr, contents |-> <<>>]

\* the folder names DeleteFolder is called with
Chars == {"a", Slash}
Names == UNION {[1..n -> Chars] : n \in 0..MaxName}

\* the results of a.Delete
DeleteResults == {NilErr, ErrS3}

\* ListChan has not been called
ListChanIdle ==
    /\ lcPc = "idle"
    /\ lcPrefix = <<>>
    /\ lcOut = NoOutput
    /\ lcErr = NilErr
    /\ sndPc = "none"
    /\ sndI = 1
    /\ chBuf = <<>>
    /\ chClosed = FALSE
    /\ received = <<>>
    /\ consPc = "recv"

\* DeleteFolder has not been called
DeleteFolderIdle ==
    /\ dfPc = "idle"
    /\ dfName = <<>>
    /\ dfFolder = <<>>
    /\ dfKeys = <<>>
    /\ dfI = 0
    /\ dfCalls = <<>>
    /\ dfErr = NilErr

\* Cache.init
Init ==
    /\ cache = [d \in Pools |-> EmptyMap]
    /\ rlocked = {}
    /\ writer = 0
    /\ pc = [p \in Procs |-> "idle"]
    /\ arg = [p \in Procs |-> NoArg]
    /\ ret = [p \in Procs |-> NoResult]
    /\ ncalls = [p \in Procs |-> 0]
    /\ snap = [p \in Procs |-> {}]
    /\ last = NoLast
    /\ calls = 0
    /\ started = 0
    /\ given = [k \in Keys |-> {}]
    /\ returned = [k \in Keys |-> {}]
    /\ invalidated = {}
    /\ ListChanIdle
    /\ DeleteFolderIdle

\* ----------------------------------------------------------- sync.RWMutex
\* an RLock that also waits for the other readers to leave
CanRLock_exclusive == writer = 0 /\ rlocked = {}

\* RLock succeeds when no goroutine holds or awaits the write lock.
CanRLock == writer = 0
\* a Lock that does not exclude the other writers
CanLock_always == TRUE

\* Lock first excludes other writers and new readers ...
CanLock == writer = 0
\* a Lock that does not wait for the readers
CanEnter_always == TRUE

\* ... and then waits for the readers that hold the lock to leave.
CanEnter == rlocked = {}

\* ----------------------------------------------------------------- Cache
\* A goroutine that is in no call makes the next call.
CanCall(p) ==
    /\ pc[p] = "idle"
    /\ started < MaxOps

\* Len that counts the users found only
CacheLen_positive(d) ==
    Cardinality({u \in DOMAIN cache[d] : cache[d][u].err = NilErr})

\* len(c.cache[userPoolId])
CacheLen(d) == Cardinality(DOMAIN cache[d])

\* add that stores the entry without the user
add_dropUser(c, d, u, user, err) ==
    [c EXCEPT ![d] = [x \in (DOMAIN c[d]) \cup {u} |->
                        IF x = u THEN cacheData(NilUser, err) ELSE c[d][x]]]

\* add that stores ErrCognitoUserNotFound in place of the error it is given
add_sentinel(c, d, u, user, err) ==
    [c EXCEPT ![d] = [x \in (DOMAIN c[d]) \cup {u} |->
                        IF x = u
                        THEN cacheData(user, IF err # NilErr THEN ErrCognitoUserNotFound
                                                             ELSE NilErr)
                        ELSE c[d][x]]]

\* add that stores the user and drops the error
add_noErr(c, d, u, user, err) ==
    [c EXCEPT ![d] = [x \in (DOMAIN c[d]) \cup {u} |->
                        IF x = u THEN cacheData(user, NilErr) ELSE c[d][x]]]

\* add that stores the entry under the sub in every pool
add_anyPool(c, d, u, user, err) ==
    [x \in Pools |-> [y \in (DOMAIN c[x]) \cup {u} |->
                        IF y = u THEN cacheData(user, err) ELSE c[x][y]]]

\* Cache.add: c.cache[userPoolId][sub] = cacheData{user, err}
add(c, d, u, user, err) ==
    [c EXCEPT ![d] = [x \in (DOMAIN c[d]) \cup {u} |->
                        IF x = u THEN cacheData(user, err) ELSE c[d][x]]]

\* Clear that removes the users found and keeps the not-found entries
clear_keepNegative(c, d) ==
    [c EXCEPT ![d] = [x \in {y \in DOMAIN c[d] : c[d][y].err # NilErr} |-> c[d][x]]]

\* Clear that empties the whole cache
clear_all(c, d) == [x \in Pools |-> EmptyMap]

\* Cache.Clear: delete(c.cache, userPoolId)
clear(c, d) == [c EXCEPT ![d] = EmptyMap]

\* Get that does not store the not-found error
store_noNegative(c, d, u, user, err) ==
    IF err # NilErr THEN c ELSE add(c, d, u, user, NilErr)

\* Get that stores the not-found error and not the user found
store_noPositive(c, d, u, user, err) ==
    IF err # NilErr
    THEN IF Error(err) = Error(ErrCognitoUserNotFound)
         THEN add(c, d, u, user, err)
         ELSE c
    ELSE c

\* The store after the provider call of Get: what is added for (user, err)
store(c, d, u, user, err) ==
    IF err # NilErr
    THEN IF Error(err) = Error(ErrCognitoUserNotFound)
         THEN add(c, d, u, user, err)
         ELSE c
    ELSE add(c, d, u, user, NilErr)

\* what a finished Get leaves in last
GetResult(p, r, hit) ==
    [op |-> "Get", pool |-> arg[p].pool, sub |-> arg[p].sub, ret |-> r,
     ok |-> hit, ncalls |-> ncalls[p], snap |-> snap[p], len |-> 0]

\* Get is called
CallGet(p, d, u) ==
    /\ CanCall(p)
    /\ started' = started + 1
    /\ pc' = [pc EXCEPT ![p] = "g_rlock"]
    /\ arg' = [arg EXCEPT ![p] = [op |-> "Get", pool |-> d, sub |-> u]]
    /\ snap' = [snap EXCEPT ![p] = returned[<<d, u>>]]
    /\ UNCHANGED <<cache, rlocked, writer, ret, ncalls, last, calls, given,
                   returned, invalidated>>
    /\ UNCHANGED s3Vars

\* c.mu.RLock()
GetRLock(p) ==
    /\ pc[p] = "g_rlock"
    /\ CanRLock
    /\ rlocked' = rlocked \cup {p}
    /\ pc' = [pc EXCEPT ![p] = "g_read"]
    /\ UNCHANGED <<cache, writer, arg, ret, ncalls, snap, last, calls, started,
                   given, returned, invalidated>>
    /\ UNCHANGED s3Vars

\* a Get that returns the read lock on a hit only and goes on to Lock with it
GetRead_keepRLock(p) ==
    /\ pc[p] = "g_read"
    /\ LET d == arg[p].pool
           u == arg[p].sub
       IN IF u \in DOMAIN cache[d]
          THEN /\ rlocked' = rlocked \ {p}
               /\ last' = GetResult(p, cache[d][u], TRUE)
               /\ returned' = [returned EXCEPT ![<<d, u>>] = @ \cup {cache[d][u]}]
               /\ pc' = [pc EXCEPT ![p] = "idle"]
               /\ arg' = [arg EXCEPT ![p] = NoArg]
               /\ snap' = [snap EXCEPT ![p] = {}]
          ELSE /\ pc' = [pc EXCEPT ![p] = "g_lock"]
               /\ UNCHANGED <<rlocked, last, returned, arg, snap>>
    /\ UNCHANGED <<cache, writer, ret, ncalls, calls, started, given, invalidated>>
    /\ UNCHANGED s3Vars

\* userCache, ok := c.cache[userPoolId][sub]; c.mu.RUnlock(); if ok, Get
\* returns the user and the error of the entry
GetRead(p) ==
    /\ pc[p] = "g_read"
    /\ rlocked' = rlocked \ {p}
    /\ LET d == arg[p].pool
           u == arg[p].sub
       IN IF u \in DOMAIN cache[d]
          THEN /\ last' = GetResult(p, cache[d][u], TRUE)
               /\ returned' = [returned EXCEPT ![<<d, u>>] = @ \cup {cache[d][u]}]
               /\ pc' = [pc EXCEPT ![p] = "idle"]
               /\ arg' = [arg EXCEPT ![p] = NoArg]
               /\ snap' = [snap EXCEPT ![p] = {}]
          ELSE /\ pc' = [pc EXCEPT ![p] = "g_lock"]
               /\ UNCHANGED <<last, returned, arg, snap>>
    /\ UNCHANGED <<cache, writer, ret, ncalls, calls, started, given, invalidated>>
    /\ UNCHANGED s3Vars

\* c.mu.Lock(): the call
GetLock(p) ==
    /\ pc[p] = "g_lock"
    /\ CanLock
    /\ writer' = p
    /\ pc' = [pc EXCEPT ![p] = "g_wait"]
    /\ UNCHANGED <<cache, rlocked, arg, ret, ncalls, snap, last, calls, started,
                   given, returned, invalidated>>
    /\ UNCHANGED s3Vars

\* a Get that looks the key up again once it has the write lock and returns
\* the entry another Get stored meanwhile
GetLocked_recheck(p) ==
    /\ pc[p] = "g_wait"
    /\ CanEnter
    /\ LET d == arg[p].pool
           u == arg[p].sub
       IN IF u \in DOMAIN cache[d]
          THEN /\ last' = GetResult(p, cache[d][u], TRUE)
               /\ returned' = [returned EXCEPT ![<<d, u>>] = @ \cup {cache[d][u]}]
               /\ writer' = 0
               /\ pc' = [pc EXCEPT ![p] = "idle"]
               /\ arg' = [arg EXCEPT ![p] = NoArg]
               /\ snap' = [snap EXCEPT ![p] = {}]
          ELSE /\ pc' = [pc EXCEPT ![p] = "g_call"]
               /\ UNCHANGED <<last, returned, writer, arg, snap>>
    /\ UNCHANGED <<cache, rlocked, ret, ncalls, calls, started, given, invalidated>>
    /\ UNCHANGED s3Vars

\* c.mu.Lock(): the write lock is taken
GetLocked(p) ==
    /\ pc[p] = "g_wait"
    /\ CanEnter
    /\ pc' = [pc EXCEPT ![p] = "g_call"]
    /\ UNCHANGED <<cache, rlocked, writer, arg, ret, ncalls, snap, last, calls,
                   started, given, returned, invalidated>>
    /\ UNCHANGED s3Vars

\* user, err = c.coginto.Get(userPoolId, sub)
GetCognito(p) ==
    /\ pc[p] = "g_call"
    /\ \E out \in ListUsersOutputs :
          /\ ret' = [ret EXCEPT ![p] = CognitoGet(out)]
          /\ given' = [given EXCEPT ![KeyOf(p)] = @ \cup {CognitoGet(out)}]
    /\ calls' = calls + 1
    /\ ncalls' = [ncalls EXCEPT ![p] = @ + 1]
    /\ pc' = [pc EXCEPT ![p] = "g_add"]
    /\ UNCHANGED <<cache, rlocked, writer, arg, snap, last, started, returned,
                   invalidated>>
    /\ UNCHANGED s3Vars

\* the rest of Get: the store for a not-found error or a user, the deferred
\* c.mu.Unlock() and the return of (user, err)
GetAdd(p) ==
    /\ pc[p] = "g_add"
    /\ LET d == arg[p].pool
           u == arg[p].sub
       IN /\ cache' = store(cache, d, u, ret[p].user, ret[p].err)
          /\ invalidated' = IF cache' # cache
                            THEN invalidated \ {<<d, u>>} ELSE invalidated
          /\ returned' = [returned EXCEPT ![<<d, u>>] = @ \cup {ret[p]}]
    /\ last' = GetResult(p, ret[p], FALSE)
    /\ writer' = 0
    /\ pc' = [pc EXCEPT ![p] = "idle"]
    /\ arg' = [arg EXCEPT ![p] = NoArg]
    /\ ret' = [ret EXCEPT ![p] = NoResult]
    /\ ncalls' = [ncalls EXCEPT ![p] = 0]
    /\ snap' = [snap EXCEPT ![p] = {}]
    /\ UNCHANGED <<rlocked, calls, started, given>>
    /\ UNCHANGED s3Vars

\* Len is called
CallLen(p, d) ==
    /\ CanCall(p)
    /\ started' = started + 1
    /\ pc' = [pc EXCEPT ![p] = "l_rlock"]
    /\ arg' = [arg EXCEPT ![p] = [op |-> "Len", pool |-> d, sub |-> NoArg.sub]]
    /\ UNCHANGED <<cache, rlocked, writer, ret, ncalls, snap, last, calls, given,
                   returned, invalidated>>
    /\ UNCHANGED s3Vars

\* c.mu.RLock()
LenRLock(p) ==
    /\ pc[p] = "l_rlock"
    /\ CanRLock
    /\ rlocked' = rlocked \cup {p}
    /\ pc' = [pc EXCEPT ![p] = "l_read"]
    /\ UNCHANGED <<cache, writer, arg, ret, ncalls, snap, last, calls, started,
                   given, returned, invalidated>>
    /\ UNCHANGED s3Vars

\* return len(c.cache[userPoolId]), with the deferred c.mu.RUnlock()
LenRead(p) ==
    /\ pc[p] = "l_read"
    /\ last' = [NoLast EXCEPT !.op = "Len", !.pool = arg[p].pool,
                              !.len = CacheLen(arg[p].pool)]
    /\ rlocked' = rlocked \ {p}
    /\ pc' = [pc EXCEPT ![p] = "idle"]
    /\ arg' = [arg EXCEPT ![p] = NoArg]
    /\ UNCHANGED <<cache, writer, ret, ncalls, snap, calls, started, given,
                   returned, invalidated>>
    /\ UNCHANGED s3Vars

\* Clear is called
CallClear(p, d) ==
    /\ CanCall(p)
    /\ started' = started + 1
    /\ pc' = [pc EXCEPT ![p] = "c_lock"]
    /\ arg' = [arg EXCEPT ![p] = [op |-> "Clear", pool |-> d, sub |-> NoArg.sub]]
    /\ UNCHANGED <<cache, rlocked, writer, ret, ncalls, snap, last, calls, given,
                   returned, invalidated>>
    /\ UNCHANGED s3Vars

\* c.mu.Lock(): the call
ClearLock(p) ==
    /\ pc[p] = "c_lock"
    /\ CanLock
    /\ writer' = p
    /\ pc' = [pc EXCEPT ![p] = "c_wait"]
    /\ UNCHANGED <<cache, rlocked, arg, ret, ncalls, snap, last, calls, started,
                   given, returned, invalidated>>
    /\ UNCHANGED s3Vars

\* c.mu.Lock(): the write lock is taken
ClearLocked(p) ==
    /\ pc[p] = "c_wait"
    /\ CanEnter
    /\ pc' = [pc EXCEPT ![p] = "c_del"]
    /\ UNCHANGED <<cache, rlocked, writer, arg, ret, ncalls, snap, last, calls,
                   started, given, returned, invalidated>>
    /\ UNCHANGED s3Vars

\* delete(c.cache, userPoolId), the deferred c.mu.Unlock() and the return
ClearDelete(p) ==
    /\ pc[p] = "c_del"
    /\ LET d == arg[p].pool
       IN /\ cache' = clear(cache, d)
          /\ invalidated' = invalidated \cup {<<d, u>> : u \in DOMAIN cache[d]}
          /\ returned' = [k \in Keys |-> IF k[1] = d THEN {} ELSE returned[k]]
          /\ snap' = [q \in Procs |->
                        IF arg[q].op = "Get" /\ arg[q].pool = d THEN {} ELSE snap[q]]
          /\ last' = [NoLast EXCEPT !.op = "Clear", !.pool = d]
    /\ writer' = 0
    /\ pc' = [pc EXCEPT ![p] = "idle"]
    /\ arg' = [arg EXCEPT ![p] = NoArg]
    /\ UNCHANGED <<rlocked, ret, ncalls, calls, started, given>>
    /\ UNCHANGED s3Vars

Next ==
    \/ \E p \in Procs, d \in Pools, u \in Subs : CallGet(p, d, u)
    \/ \E p \in Procs : GetRLock(p)
    \/ \E p \in Procs : GetRead(p)
    \/ \E p \in Procs : GetLock(p)
    \/ \E p \in Procs : GetLocked(p)
    \/ \E p \in Procs : GetCognito(p)
    \/ \E p \in Procs : GetAdd(p)
    \/ \E p \in Procs, d \in Pools : CallLen(p, d)
    \/ \E p \in Procs : LenRLock(p)
    \/ \E p \in Procs : LenRead(p)
    \/ \E p \in Procs, d \in Pools : CallClear(p, d)
    \/ \E p \in Procs : ClearLock(p)
    \/ \E p \in Procs : ClearLocked(p)
    \/ \E p \in Procs : ClearDelete(p)

Spec == Init /\ [][Next]_vars

\* ---------------------------------------------------------------- fairness
\* the steps of goroutine p that wait for nothing: the reads, the provider
\* call (which returns), the store and the delete, each with its unlock
Step(p) ==
    \/ GetRead(p)
    \/ GetCognito(p)
    \/ GetAdd(p)
    \/ LenRead(p)
    \/ ClearDelete(p)

\* the steps of goroutine p on c.mu that may have to wait
Acquire(p) ==
    \/ GetRLock(p)
    \/ GetLock(p)
    \/ GetLocked(p)
    \/ LenRLock(p)
    \/ ClearLock(p)
    \/ ClearLocked(p)

\* Every goroutine inside a call keeps running, every provider call returns
\* and the mutex is fair: a goroutine that can take the lock again and again
\* takes it.
FairSpec ==
    /\ Spec
    /\ \A p \in Procs : WF_vars(Step(p)) /\ SF_vars(Acquire(p))

\* ---------------------------------------------------------- awsS3.ListChan
\* a sender that skips no key
Skipped_never(key, prefix) == FALSE

\* if *obj.Key == prefix { continue }
Skipped(key, prefix) == key = prefix

\* ListChan is called: ch = make(chan string, 10)
CallListChan(prefix) ==
    /\ lcPc = "idle"
    /\ lcPc' = "list"
    /\ lcPrefix' = prefix
    /\ chBuf' = <<>>
    /\ chClosed' = FALSE
    /\ UNCHANGED <<lcOut, lcErr, sndPc, sndI, received, consPc>>
    /\ UNCHANGED <<cacheVars, dfVars>>

\* listObjects, err := a.Client.ListObjects(...); on an error ListChan returns
\* (ch, err), otherwise it starts the sender goroutine
ListChanList ==
    /\ lcPc = "list"
    /\ \E out \in ListOutputs(lcPrefix, MaxKeys) :
          /\ lcOut' = out
          /\ IF out.err # NilErr
             THEN /\ lcErr' = out.err
                  /\ lcPc' = "done"
                  /\ UNCHANGED <<sndPc, sndI>>
             ELSE /\ lcPc' = "ret"
                  /\ sndPc' = "loop"
                  /\ sndI' = 1
                  /\ UNCHANGED lcErr
    /\ UNCHANGED <<lcPrefix, chBuf, chClosed, received, consPc>>
    /\ UNCHANGED <<cacheVars, dfVars>>

\* the return of (ch, nil) after the go statement
ListChanReturn ==
    /\ lcPc = "ret"
    /\ lcPc' = "done"
    /\ lcErr' = NilErr
    /\ UNCHANGED <<lcPrefix, lcOut, sndPc, sndI, chBuf, chClosed, received, consPc>>
    /\ UNCHANGED <<cacheVars, dfVars>>

\* the sender's loop at an object whose key is the prefix: continue
SenderSkip ==
    /\ sndPc = "loop"
    /\ sndI <= Len(lcOut.contents)
    /\ Skipped(lcOut.contents[sndI], lcPrefix)
    /\ sndI' = sndI + 1
    /\ UNCHANGED <<lcPc, lcPrefix, lcOut, lcErr, sndPc, chBuf, chClosed, received,
                   consPc>>
    /\ UNCHANGED <<cacheVars, dfVars>>

\* ch <- *obj.Key, which waits while the buffer is full
SenderSend ==
    /\ sndPc = "loop"
    /\ sndI <= Len(lcOut.contents)
    /\ ~Skipped(lcOut.contents[sndI], lcPrefix)
    /\ Len(chBuf) < ChanCap
    /\ chBuf' = Append(chBuf, lcOut.contents[sndI])
    /\ sndI' = sndI + 1
    /\ UNCHANGED <<lcPc, lcPrefix, lcOut, lcErr, sndPc, chClosed, received, consPc>>
    /\ UNCHANGED <<cacheVars, dfVars>>

\* close(ch) after the loop
SenderClose ==
    /\ sndPc = "loop"
    /\ sndI > Len(lcOut.contents)
    /\ chClosed' = TRUE
    /\ sndPc' = "done"
    /\ UNCHANGED <<lcPc, lcPrefix, lcOut, lcErr, sndI, chBuf, received, consPc>>
    /\ UNCHANGED <<cacheVars, dfVars>>

\* the caller of ListChan receives a key from the channel it was returned
ConsumerReceive ==
    /\ lcPc = "done"
    /\ consPc = "recv"
    /\ chBuf # <<>>
    /\ received' = Append(received, Head(chBuf))
    /\ chBuf' = Tail(chBuf)
    /\ UNCHANGED <<lcPc, lcPrefix, lcOut, lcErr, sndPc, sndI, chClosed, consPc>>
    /\ UNCHANGED <<cacheVars, dfVars>>

\* the caller's receive on the closed and empty channel
ConsumerEnd ==
    /\ lcPc = "done"
    /\ consPc = "recv"
    /\ chBuf = <<>>
    /\ chClosed
    /\ consPc' = "end"
    /\ UNCHANGED <<lcPc, lcPrefix, lcOut, lcErr, sndPc, sndI, chBuf, chClosed,
                   received>>
    /\ UNCHANGED <<cacheVars, dfVars>>

ListChanNext ==
    \/ \E prefix \in Prefixes : CallListChan(prefix)
    \/ ListChanList
    \/ ListChanReturn
    \/ SenderSkip
    \/ SenderSend
    \/ SenderClose
    \/ ConsumerReceive
    \/ ConsumerEnd

ListChanSpec == Init /\ [][ListChanNext]_vars

\* ListChan and the sender goroutine keep running, and the consumer keeps
\* receiving from the channel
ListChanFairSpec ==
    /\ ListChanSpec
    /\ WF_vars(ListChanList)
    /\ WF_vars(ListChanReturn)
    /\ WF_vars(SenderSkip)
    /\ WF_vars(SenderSend)
    /\ WF_vars(SenderClose)
    /\ WF_vars(ConsumerReceive)
    /\ WF_vars(ConsumerEnd)

\* ------------------------------------------------------ awsS3.DeleteFolder
\* a trim that removes one trailing character of the cutset
TrimRight_one(str, cut) ==
    IF str # <<>> /\ str[Len(str)] = cut THEN SubSeq(str, 1, Len(str) - 1) ELSE str

\* strings.TrimRight(str, cut) for a cutset of one character
TrimRight(str, cut) ==
    LET n == CHOOSE j \in 0..Len(str) :
                 /\ j = 0 \/ str[j] # cut
                 /\ \A i \in (j + 1)..Len(str) : str[i] = cut
    IN SubSeq(str, 1, n)

\* the keys a.List returns for an answer of ListObjects: those other than
\* the prefix
listKeys(contents, prefix) == SelectSeq(contents, LAMBDA k : k # prefix)

\* a storage call with its result
StorageCall(op, key, err, contents) ==
    [op |-> op, key |-> key, err |-> err, contents |-> contents]

\* DeleteFolder is called: the length check and the slash added to folderName
CallDeleteFolder(name) ==
    /\ dfPc = "idle"
    /\ dfName' = name
    /\ IF Len(name) = 0
       THEN /\ dfPc' = "done"
            /\ dfErr' = NilErr
            /\ UNCHANGED dfFolder
       ELSE /\ dfPc' = "list"
            /\ dfFolder' = IF name[Len(name)] # Slash THEN name \o <<Slash>> ELSE name
            /\ UNCHANGED dfErr
    /\ UNCHANGED <<dfKeys, dfI, dfCalls>>
    /\ UNCHANGED <<cacheVars, lcVars>>

\* keys, err := a.List(bucket, folderName); if err != nil { return }
DeleteFolderList ==
    /\ dfPc = "list"
    /\ \E out \in ListOutputs(dfFolder, MaxFolderKeys) :
          /\ dfCalls' = Append(dfCalls,
                               StorageCall("List", dfFolder, out.err, out.contents))
          /\ IF out.err # NilErr
             THEN /\ dfErr' = out.err
                  /\ dfPc' = "done"
                  /\ UNCHANGED <<dfKeys, dfI>>
             ELSE /\ dfKeys' = listKeys(out.contents, dfFolder)
                  /\ dfI' = Len(dfKeys')
                  /\ dfPc' = "keys"
                  /\ UNCHANGED dfErr
    /\ UNCHANGED <<dfName, dfFolder>>
    /\ UNCHANGED <<cacheVars, lcVars>>

\* a.Delete(bucket, keys[i]) in the loop from the last key to the first; the
\* error of Delete is dropped
DeleteFolderKey ==
    /\ dfPc = "keys"
    /\ dfI >= 1
    /\ \E e \in DeleteResults :
          dfCalls' = Append(dfCalls, StorageCall("Delete", dfKeys[dfI], e, <<>>))
    /\ dfI' = dfI - 1
    /\ UNCHANGED <<dfPc, dfName, dfFolder, dfKeys, dfErr>>
    /\ UNCHANGED <<cacheVars, lcVars>>

\* after the loop: folderName = strings.TrimRight(folderName, "/"),
\* a.Delete(bucket, folderName) and the return of the nil err
DeleteFolderFolder ==
    /\ dfPc = "keys"
    /\ dfI = 0
    /\ dfFolder' = TrimRight(dfFolder, Slash)
    /\ \E e \in DeleteResults :
          dfCalls' = Append(dfCalls, StorageCall("Delete", dfFolder', e, <<>>))
    /\ dfErr' = NilErr
    /\ dfPc' = "done"
    /\ UNCHANGED <<dfName, dfKeys, dfI>>
    /\ UNCHANGED <<cacheVars, lcVars>>

DeleteFolderNext ==
    \/ \E name \in Names : CallDeleteFolder(name)
    \/ DeleteFolderList
    \/ DeleteFolderKey
    \/ DeleteFolderFolder

DeleteFolderSpec == Init /\ [][DeleteFolderNext]_vars

\* ------------------------------------------------------------- type check
TypeOK ==
    /\ \A d \in Pools : DOMAIN cache[d] \subseteq Subs
    /\ rlocked \subseteq Procs
    /\ writer \in Procs \cup {0}
    /\ calls <= started
    /\ started <= MaxOps

\* ------------------------------------------------------- claim vocabulary
\* the call that finished last is a Get
LastGet == last.op = "Get"
LastKey == <<last.pool, last.sub>>
CachedIn(c, k) == k[2] \in DOMAIN c[k[1]]
Cached(k) == CachedIn(cache, k)
\* the entry of key k, NoResult when there is none
Entry(k) == IF Cached(k) THEN cache[k[1]][k[2]] ELSE NoResult
NotFoundResult == cacheData(NilUser, ErrCognitoUserNotFound)
Found(r) == cacheData(r, NilErr)
\* goroutine p takes the step that ends its call from position at
Ends(p, at) == pc[p] = at /\ pc'[p] = "idle"

\* For a key whose provider answers have all been o: a finished Get returned
\* o, the provider was called for the key, the Get made one call on a miss
\* and none on a hit, and it was a hit when a Get of the key had finished
\* before it was called with no Clear of the pool since.
Memoized(o) ==
    (LastGet /\ given[LastKey] \subseteq {o}) =>
        /\ last.ret = o
        /\ given[LastKey] = {o}
        /\ calls >= 1
        /\ last.ok => last.ncalls = 0
        /\ ~last.ok => last.ncalls = 1
        /\ last.snap # {} => last.ok

C2_PositiveMemoization == \A r \in Users : Memoized(Found(r))

C2_Witness ==
    \E r \in Users :
        /\ LastGet /\ last.ok /\ last.ncalls = 0 /\ last.snap = {Found(r)}
        /\ last.ret = Found(r)
        /\ given[LastKey] = {Found(r)}
        /\ calls = 1

\* C3: result stability until Clear. Once a Get of a key has returned a
\* record (or the not-found error), a Get of the key called after that
\* return, with no Clear of the pool since, returns the same result and makes
\* no provider call, whatever the provider answers by then. Stated for the
\* keys the provider never answered with an error that has the text of
\* ErrCognitoUserNotFound without being it.
C3_StableUntilClear ==
    (LastGet /\ cacheData(NilUser, ErrSameText) \notin given[LastKey]) =>
        \A o \in last.snap :
            (o.err = NilErr \/ o.err = ErrCognitoUserNotFound) =>
                (last.ret = o /\ last.ncalls = 0)

\* C4: transient errors are not memoized. When the provider answered a Get
\* with an error other than ErrCognitoUserNotFound, the Get returns that
\* error with no record and leaves the store (and so Len) unchanged, with no
\* entry for the key, so that the next Get of the key calls the provider.
C4_TransientNotMemoized ==
    [][\A p \in Procs :
          (Ends(p, "g_add") /\ ret[p].err # NilErr
           /\ ret[p].err # ErrCognitoUserNotFound) =>
             /\ last'.ret = cacheData(NilUser, ret[p].err)
             /\ cache' = cache
             /\ ~CachedIn(cache', KeyOf(p))]_vars

\* C5: Clear invalidates atomically. The step of Clear(d) that deletes leaves
\* Len(d) = 0; a key removed by a Clear has no entry until a Get stores it
\* again, so a Get that reads it misses and calls the provider once; the
\* entries of a pool only grow or vanish all at once, and while Clear deletes
\* no goroutine holds the read lock.
C5_ClearInvalidates ==
    /\ [](\A k \in invalidated : ~Cached(k))
    /\ [](\A p \in Procs : pc[p] = "c_del" => (rlocked = {} /\ writer = p))
    /\ []((LastGet /\ ~last.ok) => last.ncalls = 1)
    /\ [][/\ \A p \in Procs :
               Ends(p, "c_del") => DOMAIN cache'[arg[p].pool] = {}
          /\ \A p \in Procs :
               (pc[p] = "g_read" /\ pc'[p] # "g_read" /\ KeyOf(p) \in invalidated) =>
                   pc'[p] = "g_lock"
          /\ \A d \in Pools :
               \/ DOMAIN cache[d] \subseteq DOMAIN cache'[d]
               \/ DOMAIN cache'[d] = {}]_vars

C5_Witness ==
    \E p \in Procs :
        /\ pc[p] = "g_add" /\ ncalls[p] = 1
        /\ KeyOf(p) \in invalidated
        /\ DOMAIN cache[arg[p].pool] = {}

\* C6: isolation across pools. The store of a Get of pool A and the delete
\* of a Clear of pool A leave the entries of every other pool unchanged.
C6_PoolIsolation ==
    [][\A p \in Procs :
          (Ends(p, "g_add") \/ Ends(p, "c_del")) =>
              \A b \in Pools \ {arg[p].pool} : cache'[b] = cache[b]]_vars

C6_Witness ==
    /\ last.op = "Clear"
    /\ \E u \in Subs : <<last.pool, u>> \in invalidated
    /\ DOMAIN cache[last.pool] = {}
    /\ \E b \in Pools \ {last.pool} : DOMAIN cache[b] # {}

C8_NotFoundByKind ==
    /\ \A k \in Keys : (Cached(k) /\ Entry(k).err # NilErr) =>
                           Entry(k).err = ErrCognitoUserNotFound
    /\ (LastGet /\ last.ok /\ last.ret.err # NilErr) =>
           last.ret.err = ErrCognitoUserNotFound

C10_ErrorsFromProvider ==
    /\ []((LastGet /\ last.ret.err # NilErr) =>
              (last.ret \in given[LastKey] /\ last.ret.user = NilUser))
    /\ [][\A p \in Procs :
            (Ends(p, "g_add") /\ ret[p].err # NilErr) =>
                last'.ret.err = ret[p].err]_vars

C10_Witness ==
    /\ LastGet /\ last.ok /\ last.ret.err # NilErr
    /\ last.ret \in given[LastKey]

\* every (user, err) pair the provider can return
Answers == {CognitoGet(out) : out \in ListUsersOutputs}

\* C11: transparency. For a key whose provider answers are all the same pair
\* (a record, ErrCognitoUserNotFound or any other error), every finished Get
\* of the key returned that pair, from the cache or from the provider; a hit
\* returns the entry it read, and a Get that writes the store returns what
\* it wrote, so a hit returns what the Get that stored the entry returned.
C11_Transparency ==
    /\ [](\A o \in Answers :
            (LastGet /\ given[LastKey] \subseteq {o}) => last.ret = o)
    /\ [][\A p \in Procs :
            /\ Ends(p, "g_read") =>
                   /\ Cached(KeyOf(p))
                   /\ last'.ret = Entry(KeyOf(p))
                   /\ last'.ok
            /\ (Ends(p, "g_add") /\ cache' # cache) =>
                   cache'[arg[p].pool][arg[p].sub] = last'.ret]_vars

\* a Get, another call and then a hit that returns the one answer of the key
C11_Witness ==
    /\ LastGet /\ last.ok
    /\ last.ret = Entry(LastKey)
    /\ given[LastKey] = {last.ret}
    /\ returned[LastKey] = {last.ret}
    /\ started = MaxOps /\ calls = 1

\* C12: the cache key is the pair (pool, sub). An entry of (d, u) holds an
\* answer the provider gave for (d, u), and a Get of (d, u) returns such an
\* answer, never one given for u under another pool; a Get of a key the
\* provider was never asked for misses at its read, whatever is cached
\* under other pools, and its provider call is made for its own key.
C12_KeyIsPair ==
    /\ [](\A k \in Keys : Cached(k) => Entry(k) \in given[k])
    /\ [](LastGet => last.ret \in given[LastKey])
    /\ [][\A p \in Procs :
            /\ (pc[p] = "g_read" /\ pc'[p] # "g_read" /\ given[KeyOf(p)] = {}) =>
                   pc'[p] = "g_lock"
            /\ (pc[p] = "g_call" /\ pc'[p] # "g_call") =>
                   /\ ret'[p] \in given'[KeyOf(p)]
                   /\ \A k \in Keys \ {KeyOf(p)} : given'[k] = given[k]]_vars

\* the first Get of (d, u) reads while u is cached under another pool
C12_Witness ==
    \E p \in Procs :
        /\ pc[p] = "g_read"
        /\ given[KeyOf(p)] = {}
        /\ \E b \in Pools \ {arg[p].pool} :
              /\ Cached(<<b, arg[p].sub>>)
              /\ returned[<<b, arg[p].sub>>] # {}

\* the store of goroutine p's Get calls add for the answer it holds
Adds(p) ==
    LET none == [x \in Pools |-> EmptyMap]
    IN store(none, arg[p].pool, arg[p].sub, ret[p].user, ret[p].err) # none

\* C13: entry immutability. While a key has an entry its value does not
\* change: only the delete of a Clear of its pool ends it, and the store of a
\* Get does not write to a key that already has an entry. Stated for the
\* keys the provider never answered with an error that has the text of
\* ErrCognitoUserNotFound without being it.
C13_EntryImmutable ==
    [][/\ \A k \in Keys :
            (Cached(k) /\ CachedIn(cache', k)
             /\ cacheData(NilUser, ErrSameText) \notin given[k]) =>
                cache'[k[1]][k[2]] = cache[k[1]][k[2]]
       /\ \A p \in Procs :
            (Ends(p, "g_add") /\ Cached(KeyOf(p))
             /\ cacheData(NilUser, ErrSameText) \notin given[KeyOf(p)]) =>
                ~Adds(p)]_vars

\* goroutine p's Get is in its provider call or between the call and the store
InFlight(p) == pc[p] \in {"g_call", "g_add"}
\* goroutine p is at a read or a write of the store
AtStore(p) == pc[p] \in {"g_read", "l_read", "c_del", "g_call", "g_add"}

\* C14: a miss holds the write lock for the whole provider call. At most one
\* Get is in its provider call; while it is, it holds the write lock, no
\* goroutine holds the read lock, no other Get, Len or Clear is at a read or
\* a write of the store and the store does not change; the Get keeps the
\* lock from the call to its store, which ends the same section.
C14_ExclusiveMiss ==
    /\ [](\A p \in Procs :
            InFlight(p) =>
               /\ writer = p
               /\ rlocked = {}
               /\ \A q \in Procs \ {p} : ~AtStore(q))
    /\ [][\A p \in Procs :
            InFlight(p) =>
               /\ cache' # cache => Ends(p, "g_add")
               /\ writer' # p => Ends(p, "g_add")
               /\ (pc[p] = "g_call" /\ pc'[p] # "g_call") => pc'[p] = "g_add"]_vars

\* a Get holds the provider's answer while another call waits for the lock
C14_Witness ==
    \E p \in Procs :
        /\ pc[p] = "g_add" /\ ncalls[p] = 1
        /\ \E q \in Procs \ {p} : pc[q] \in {"g_rlock", "l_rlock", "c_lock", "g_lock"}

\* C15: tagged outcome. Every entry of the store is either a user found (a
\* record and a nil error) or not found (no record and the
\* ErrCognitoUserNotFound error); none has both a record and an error, none
\* has neither.
C15_TaggedOutcome ==
    \A k \in Keys :
        Cached(k) =>
            \/ Entry(k).user # NilUser /\ Entry(k).err = NilErr
            \/ Entry(k) = NotFoundResult

\* C16: entry lifecycle. The new cache holds no entry; an entry of (d, u)
\* appears only at the store of a Get of (d, u) that missed and whose one
\* provider call answered with a record or with ErrCognitoUserNotFound; it
\* goes only at the delete of a Clear of d; at every other step the subs
\* cached under d do not shrink and Len(d) does not decrease.
C16_EntryLifecycle ==
    /\ (\A d \in Pools : DOMAIN cache[d] = {})
    /\ [][\A k \in Keys, d \in Pools :
            /\ (~Cached(k) /\ CachedIn(cache', k)) =>
                   \E p \in Procs :
                       /\ Ends(p, "g_add") /\ KeyOf(p) = k /\ ncalls[p] = 1
                       /\ \/ ret[p].user # NilUser /\ ret[p].err = NilErr
                          \/ ret[p] = NotFoundResult
            /\ (Cached(k) /\ ~CachedIn(cache', k)) =>
                   \E p \in Procs : Ends(p, "c_del") /\ arg[p].pool = k[1]
            /\ (~\E p \in Procs : Ends(p, "c_del") /\ arg[p].pool = d) =>
                   /\ DOMAIN cache[d] \subseteq DOMAIN cache'[d]
                   /\ Cardinality(DOMAIN cache'[d]) >= CacheLen(d)]_vars

\* C17: concurrent readers. A Get or a Len at its RLock takes the read lock
\* whenever no goroutine has called Lock and not yet unlocked, however many
\* goroutines hold the read lock; a goroutine that holds the read lock makes
\* its read at once; the goroutine that has called Lock is a Get that missed
\* or a Clear. So readers hold the lock together (the witness) and a Get
\* that hits waits for a miss or a Clear only.
C17_ConcurrentReaders ==
    /\ \A p \in Procs :
          /\ (pc[p] = "g_rlock" /\ writer = 0) => ENABLED GetRLock(p)
          /\ (pc[p] = "l_rlock" /\ writer = 0) => ENABLED LenRLock(p)
          /\ pc[p] = "g_read" => (p \in rlocked /\ ENABLED GetRead(p))
          /\ pc[p] = "l_read" => (p \in rlocked /\ ENABLED LenRead(p))
    /\ writer # 0 => pc[writer] \in {"g_wait", "g_call", "g_add", "c_wait", "c_del"}

\* a Get that hits holds the read lock together with another Get or a Len
C17_Witness ==
    \E p \in Procs : \E q \in Procs \ {p} :
        /\ pc[p] = "g_read" /\ Cached(KeyOf(p))
        /\ pc[q] \in {"g_read", "l_read"}
        /\ {p, q} \subseteq rlocked

\* goroutine p leaves position at
Leaves(p, at) == pc[p] = at /\ pc'[p] # at

\* C18: provider calls per Get. A Get whose read finds an entry returns with
\* no provider call; a Get whose read finds none goes on to Lock and, once it
\* has the lock, to the provider call without another look at the store,
\* also when the key has an entry by then; it makes one call and returns.
\* The calls of Gets that missed are made one at a time.
C18_CallsPerGet ==
    /\ [](LastGet => last.ncalls = (IF last.ok THEN 0 ELSE 1))
    /\ [](\A p \in Procs : \A q \in Procs \ {p} : ~(InFlight(p) /\ InFlight(q)))
    /\ [][\A p \in Procs :
            /\ (Leaves(p, "g_read") /\ Cached(KeyOf(p))) =>
                   (Ends(p, "g_read") /\ last'.ncalls = 0 /\ calls' = calls)
            /\ (Leaves(p, "g_read") /\ ~Cached(KeyOf(p))) => pc'[p] = "g_lock"
            /\ Leaves(p, "g_lock") => pc'[p] = "g_wait"
            /\ Leaves(p, "g_wait") => (pc'[p] = "g_call" /\ ncalls'[p] = 0)
            /\ Leaves(p, "g_call") =>
                   (pc'[p] = "g_add" /\ ncalls'[p] = 1 /\ calls' = calls + 1)
            /\ Leaves(p, "g_add") =>
                   (Ends(p, "g_add") /\ last'.ncalls = 1 /\ ~last'.ok
                    /\ calls' = calls)]_vars

\* a Get that missed has made its provider call, the second call for the
\* key, though another Get stored the key after the miss
C18_Witness ==
    \E p \in Procs :
        /\ pc[p] = "g_add" /\ ncalls[p] = 1
        /\ Cached(KeyOf(p))
        /\ returned[KeyOf(p)] # {}
        /\ calls = 2

\* C19: no stale entry after Clear. From the start of a provider call to the
\* store of its answer no Clear deletes, so an answer is never written after
\* a Clear that came after its call; the delete of Clear(d) leaves no entry
\* under d; and an entry is written only by the store of a Get of that pool,
\* with the answer of the one provider call of that Get. So every entry
\* under d is the answer of a call started after the last Clear(d).
C19_NoStaleEntry ==
    [][\A p \in Procs, d \in Pools :
          /\ InFlight(p) => \A q \in Procs : ~Ends(q, "c_del")
          /\ (Ends(p, "c_del") /\ arg[p].pool = d) =>
                 /\ DOMAIN cache'[d] = {}
                 /\ \A q \in Procs : ~InFlight(q)
          /\ (cache'[d] # cache[d] /\ DOMAIN cache'[d] # {}) =>
                 \E q \in Procs :
                     /\ Ends(q, "g_add") /\ arg[q].pool = d /\ ncalls[q] = 1
                     /\ ret[q] \in given[KeyOf(q)]
                     /\ cache' = [cache EXCEPT ![d] =
                                    [x \in (DOMAIN cache[d]) \cup {arg[q].sub} |->
                                        IF x = arg[q].sub THEN ret[q] ELSE cache[d][x]]]]_vars

\* a Get has stored an entry under a pool after a Clear of the pool
C19_Witness ==
    /\ LastGet /\ ~last.ok
    /\ Cached(LastKey)
    /\ \E u \in Subs \ {last.sub} : <<last.pool, u>> \in invalidated

\* the locks goroutine p holds or has asked for, by its position
ReadLockAt == {"g_read", "l_read"}
WriteLockAt == {"g_wait", "g_call", "g_add", "c_wait", "c_del"}

\* C20: deadlock freedom. A goroutine holds the read lock exactly at its
\* read and is the writer exactly from its Lock to its unlock, never both:
\* Get has returned the read lock when it calls Lock, and a goroutine in no
\* call holds nothing, so the lock is free when no call is in progress.
\* While a call is in progress some goroutine can take a step, and with a
\* fair mutex and provider calls that return every call returns.
C20_DeadlockFree ==
    /\ [](\A p \in Procs :
            /\ p \in rlocked <=> pc[p] \in ReadLockAt
            /\ writer = p <=> pc[p] \in WriteLockAt
            /\ ~(p \in rlocked /\ writer = p))
    /\ []((\A p \in Procs : pc[p] = "idle") => (rlocked = {} /\ writer = 0))
    /\ []((\E p \in Procs : pc[p] # "idle") =>
              ENABLED (\E p \in Procs : Step(p) \/ Acquire(p)))
    /\ \A p \in Procs : (pc[p] # "idle") ~> (pc[p] = "idle")

\* every call has been made, a Get that missed and a Clear among them, and
\* all have returned
C20_Witness ==
    /\ \A p \in Procs : pc[p] = "idle"
    /\ started = MaxOps
    /\ calls >= 1
    /\ last.op = "Clear"
    /\ rlocked = {} /\ writer = 0

\* ---------------------------------------------------------------- S3 claims
\* the keys of a listing other than the prefix, in listing order
Filtered(contents, prefix) == SelectSeq(contents, LAMBDA k : k # prefix)
\* a is the beginning of b
IsPrefixOf(a, b) == Len(a) <= Len(b) /\ a = SubSeq(b, 1, Len(a))
\* what has been sent on the channel so far, in order
Sent == received \o chBuf

\* C21: ListChan. After a listing that succeeded ListChan returns (ch, nil)
\* without waiting for the sender or the consumer; what has been sent on ch is
\* always a beginning of the listed keys without the key equal to the prefix,
\* in listing order, each once; ch is closed only when all of them have been
\* sent, and the consumer sees the close only after it received them all;
\* with a consumer that keeps receiving, ch is closed in the end. After a
\* listing that failed ListChan returns the error, no sender runs and nothing
\* is sent on ch.
C21_ListChan ==
    /\ [](LET want == Filtered(lcOut.contents, lcPrefix)
          IN /\ IsPrefixOf(Sent, want)
             /\ chClosed => (Sent = want /\ sndPc = "done")
             /\ sndPc = "done" => chClosed
             /\ consPc = "end" => (received = want /\ chClosed)
             /\ lcPc = "ret" => ENABLED ListChanReturn
             /\ (lcPc = "done" /\ lcOut.err = NilErr) =>
                    (lcErr = NilErr /\ sndPc # "none")
             /\ (lcPc = "done" /\ lcOut.err # NilErr) =>
                    (lcErr = lcOut.err /\ sndPc = "none" /\ Sent = <<>>
                     /\ ~chClosed)
             /\ sndPc # "none" => lcOut.err = NilErr)
    /\ (sndPc = "loop") ~> chClosed

\* a listing longer than the channel's buffer, with an object whose key is
\* the prefix, has been received whole and the consumer has seen the close
C21_Witness ==
    /\ consPc = "end"
    /\ Len(received) = MaxKeys
    /\ Len(received) > ChanCap
    /\ Len(lcOut.contents) = MaxKeys + 1

\* the (operation, key) pairs of the storage calls made so far
CallKeys == [j \in 1..Len(dfCalls) |-> <<dfCalls[j].op, dfCalls[j].key>>]
\* seq in reverse order
Reversed(seq) == [j \in 1..Len(seq) |-> seq[Len(seq) + 1 - j]]
\* str ends with a slash
EndsWithSlash(str) == str # <<>> /\ str[Len(str)] = Slash
\* str is name without its trailing slashes
IsTrimmed(str, name) ==
    /\ ~EndsWithSlash(str)
    /\ \E n \in 0..Len(name) : name = str \o [j \in 1..n |-> Slash]

\* C22: DeleteFolder. With an empty name no storage call is made and nil is
\* returned. Otherwise the first call lists the name, with a slash added
\* when it did not end with one; when that call failed it is the only call
\* and its error is returned; when it succeeded the calls after it are a
\* Delete of each key listed other than the prefix, from the last to the
\* first, and then a Delete of the name without its trailing slashes, in
\* that order, whatever the Deletes returned, and nil is returned.
C22_DeleteFolder ==
    /\ dfName = <<>> => dfCalls = <<>>
    /\ (dfPc = "done" /\ dfName = <<>>) => dfErr = NilErr
    /\ (dfPc = "done" /\ dfName # <<>>) => dfCalls # <<>>
    /\ dfCalls # <<>> =>
          LET list == dfCalls[1]
              keys == Filtered(list.contents, list.key)
              rest == SubSeq(CallKeys, 2, Len(dfCalls))
              deletes == [j \in 1..Len(keys) |-> <<"Delete", Reversed(keys)[j]>>]
          IN /\ list.op = "List"
             /\ list.key = (IF EndsWithSlash(dfName) THEN dfName
                                                     ELSE dfName \o <<Slash>>)
             /\ list.err # NilErr =>
                    (Len(dfCalls) = 1 /\ dfPc = "done" /\ dfErr = list.err)
             /\ list.err = NilErr =>
                    /\ IsPrefixOf(rest, deletes)
                       \/ /\ dfPc = "done"
                          /\ Len(rest) = Len(keys) + 1
                          /\ SubSeq(rest, 1, Len(keys)) = deletes
                          /\ rest[Len(rest)][1] = "Delete"
                          /\ IsTrimmed(rest[Len(rest)][2], dfName)
                    /\ dfPc = "done" => (Len(rest) = Len(keys) + 1 /\ dfErr = NilErr)

\* a name with two trailing slashes, a listing with the folder's own object
\* and the most keys, a Delete that failed, and DeleteFolder returned nil
C22_Witness ==
    /\ dfPc = "done" /\ dfErr = NilErr
    /\ Len(dfName) >= 3 /\ dfName[Len(dfName)] = Slash /\ dfName[Len(dfName) - 1] = Slash
    /\ Len(dfCalls) = MaxFolderKeys + 2
    /\ Len(dfCalls[1].contents) = MaxFolderKeys + 1
    /\ \E j \in 2..Len(dfCalls) : dfCalls[j].err # NilErr

====
